---------------------------- MODULE Spec2Model ----------------------------
(***************************************************************************)
(* Boot-Controller: OS_Controller.py (Linux: GRUB + UEFI through sudo) and *)
(* OS_Controller_Windows.py (BCD through runas).                           *)
(*                                                                         *)
(* Text is modelled as a sequence of one-character strings, so that the    *)
(* parsing the program does (regular expressions, split, strip, replace,   *)
(* isdigit) is computed character by character.  The output of an external *)
(* tool is the sequence of its lines (what str.splitlines() yields).       *)
(***************************************************************************)
EXTENDS Integers, Sequences, FiniteSets, TLC

(***************************************************************************)
(* Bounds of the model.                                                    *)
(***************************************************************************)
\* prompts the user answers with a rejected secret in one invocation
MaxPrompts == 2

(***************************************************************************)
(* Python values.                                                          *)
(***************************************************************************)
\* Python's None, for variables that otherwise hold a text or a list: a
\* sequence no text equals (the elements of a text are single characters)
None == <<"None">>

\* no exception (where the name of an exception is expected)
NoException == "NoException"

\* no handler (where the name of a handler is expected)
NoHandler == "NoHandler"

\* truth value of `x` in `if x:` / `if not x:` for x a str or None
Truthy(x) == x # None /\ x # <<>>

(***************************************************************************)
(* Text primitives (str methods and the two regular expressions).          *)
(***************************************************************************)
WS == {" ", "\t", "\n", "\r"}

DIGITS == {"0", "1", "2", "3", "4", "5", "6", "7", "8", "9"}

HEXDIGITS == DIGITS \cup {"A", "B", "C", "D", "E", "F", "a", "b", "c", "d", "e", "f"}

UPPER == <<"A","B","C","D","E","F","G","H","I","J","K","L","M",
           "N","O","P","Q","R","S","T","U","V","W","X","Y","Z">>

LOWER == <<"a","b","c","d","e","f","g","h","i","j","k","l","m",
           "n","o","p","q","r","s","t","u","v","w","x","y","z">>

\* str.lower(), one character
LowerChar(c) ==
    IF \E i \in 1..Len(UPPER) : UPPER[i] = c
    THEN LOWER[CHOOSE i \in 1..Len(UPPER) : UPPER[i] = c]
    ELSE c

\* str.lower()
Lower(s) == [i \in 1..Len(s) |-> LowerChar(s[i])]

\* str.isdigit(): non-empty and every character a decimal digit
IsDigit(s) == Len(s) > 0 /\ \A i \in 1..Len(s) : s[i] \in DIGITS

\* str.startswith(pat) at position i (1-based)
IsPrefixAt(pat, s, i) ==
    /\ i >= 1
    /\ i + Len(pat) - 1 <= Len(s)
    /\ SubSeq(s, i, i + Len(pat) - 1) = pat

StartsWith(s, pat) == IsPrefixAt(pat, s, 1)

\* `pat in s`
Contains(s, pat) == \E i \in 1..(Len(s) + 1) : IsPrefixAt(pat, s, i)

\* str.strip()
Strip(s) ==
    LET keep == {i \in 1..Len(s) : s[i] \notin WS}
    IN  IF keep = {} THEN <<>>
        ELSE LET lo == CHOOSE i \in keep : \A j \in keep : i <= j
                 hi == CHOOSE i \in keep : \A j \in keep : j <= i
             IN  SubSeq(s, lo, hi)

\* str.split(sep) for a one-character separator
RECURSIVE Split(_, _)
Split(s, sep) ==
    LET hits == {i \in 1..Len(s) : s[i] = sep}
    IN  IF hits = {} THEN <<s>>
        ELSE LET k == CHOOSE i \in hits : \A j \in hits : i <= j
             IN  <<SubSeq(s, 1, k - 1)>> \o Split(SubSeq(s, k + 1, Len(s)), sep)

\* str.replace(old, ""): every non-overlapping occurrence, left to right
RECURSIVE Remove(_, _)
Remove(s, old) ==
    IF s = <<>> THEN <<>>
    ELSE IF IsPrefixAt(old, s, 1)
         THEN Remove(SubSeq(s, Len(old) + 1, Len(s)), old)
         ELSE <<s[1]>> \o Remove(Tail(s), old)

\* ' '.join(words)
RECURSIVE Join(_, _)
Join(words, sep) ==
    IF words = <<>> THEN <<>>
    ELSE IF Len(words) = 1 THEN words[1]
         ELSE words[1] \o sep \o Join(Tail(words), sep)

\* str(i) for a non-negative integer
RECURSIVE Str(_)
Str(i) ==
    LET d == <<"0", "1", "2", "3", "4", "5", "6", "7", "8", "9">>
    IN  IF i < 10 THEN <<d[i + 1]>> ELSE Str(i \div 10) \o <<d[(i % 10) + 1]>>

Min(S) == CHOOSE x \in S : \A y \in S : x <= y

Max(S) == CHOOSE x \in S : \A y \in S : y <= x

T_menuentry == <<"m","e","n","u","e","n","t","r","y"," ","'">>

\* re.search(r"menuentry '([^']+)'", line): the positions a match can start at
GrubMatchStarts(line) ==
    {i \in 1..Len(line) :
        /\ IsPrefixAt(T_menuentry, line, i)
        /\ i + Len(T_menuentry) <= Len(line)
        /\ line[i + Len(T_menuentry)] # "'"
        /\ \E j \in (i + Len(T_menuentry) + 1)..Len(line) : line[j] = "'"}

\* match.group(1) of the leftmost match; None when the line does not match
GrubTitle(line) ==
    IF GrubMatchStarts(line) = {} THEN None
    ELSE LET i == Min(GrubMatchStarts(line))
             k == i + Len(T_menuentry)
             j == Min({x \in (k + 1)..Len(line) : line[x] = "'"})
         IN  SubSeq(line, k, j - 1)

T_Boot == <<"B","o","o","t">>

\* position after 'Boot', four hex digits and the optional '*', for a match at i
UefiAfterStar(line, i) == IF i + 8 <= Len(line) /\ line[i + 8] = "*" THEN i + 9 ELSE i + 8

\* first position at or after p that holds no whitespace (Len+1 when none)
UefiSpaceEnd(line, p) == Min({q \in p..(Len(line) + 1) : q = Len(line) + 1 \/ line[q] \notin WS})

\* re.search(r'Boot([0-9A-Fa-f]{4})\*?\s+(.+)', line): where a match can start.
\* \s+ is greedy and gives one character back to (.+) when the line ends in
\* the whitespace run.
UefiMatchStarts(line) ==
    {i \in 1..Len(line) :
        /\ IsPrefixAt(T_Boot, line, i)
        /\ i + 7 <= Len(line)
        /\ \A k \in (i + 4)..(i + 7) : line[k] \in HEXDIGITS
        /\ LET p == UefiAfterStar(line, i)
               q == UefiSpaceEnd(line, p)
           IN  /\ p <= Len(line)
               /\ line[p] \in WS
               /\ (q <= Len(line) \/ q - p >= 2)}

\* (match.group(1), match.group(2).strip()) of the leftmost match, or None
UefiEntry(line) ==
    IF UefiMatchStarts(line) = {} THEN None
    ELSE LET i == Min(UefiMatchStarts(line))
             p == UefiAfterStar(line, i)
             q == UefiSpaceEnd(line, p)
             g == IF q <= Len(line) THEN SubSeq(line, q, Len(line))
                  ELSE SubSeq(line, Len(line), Len(line))
         IN  [bootnum |-> SubSeq(line, i + 4, i + 7), name |-> Strip(g)]


(***************************************************************************)
(* Entry source adapters and default resolvers.                            *)
(*                                                                         *)
(* A read of grub.cfg is [lines, failed, read]: the lines of the file and, *)
(* when failed, the number of lines the loop was given before open() or    *)
(* the iteration raised.  A run of an external tool is                     *)
(* [kind, rc, stdout, stderr, exc]: kind "exit" with the exit status and   *)
(* the captured streams, or kind "raise" with the exception subprocess.run *)
(* raised.                                                                 *)
(***************************************************************************)
\* the titles of the lines that match, in order (the loop body of get_grub_entries)
RECURSIVE GrubTitles(_)
GrubTitles(lines) ==
    IF lines = <<>> THEN <<>>
    ELSE (IF GrubTitle(lines[1]) = None THEN <<>> ELSE <<GrubTitle(lines[1])>>)
         \o GrubTitles(Tail(lines))

get_grub_entries(file) ==
    IF file.failed
    THEN GrubTitles(SubSeq(file.lines, 1, file.read))
    ELSE GrubTitles(file.lines)

RECURSIVE UefiEntries(_)
UefiEntries(lines) ==
    IF lines = <<>> THEN <<>>
    ELSE (IF UefiMatchStarts(lines[1]) = {} THEN <<>> ELSE <<UefiEntry(lines[1])>>)
         \o UefiEntries(Tail(lines))

get_uefi_entries(run) ==
    IF run.kind = "raise" THEN <<>> ELSE UefiEntries(run.stdout)

T_saved_entry == <<"s","a","v","e","d","_","e","n","t","r","y","=">>

\* OS_Controller.py get_default_entry: the first 'saved_entry=' line, split("=")[1]
RECURSIVE SavedEntry(_)
SavedEntry(lines) ==
    IF lines = <<>> THEN None
    ELSE IF StartsWith(lines[1], T_saved_entry)
         THEN Split(lines[1], "=")[2]
         ELSE SavedEntry(Tail(lines))

get_default_entry(run) ==
    IF run.kind = "raise" THEN None ELSE SavedEntry(run.stdout)

T_description == <<"d","e","s","c","r","i","p","t","i","o","n">>

T_default == <<"d","e","f","a","u","l","t">>

\* the loop body of get_bcd_entries
RECURSIVE BcdNames(_)
BcdNames(lines) ==
    IF lines = <<>> THEN <<>>
    ELSE LET match == Split(Strip(lines[1]), ":")
         IN  (IF Contains(Lower(lines[1]), T_description) /\ Len(match) > 1
              THEN <<Strip(match[2])>> ELSE <<>>)
             \o BcdNames(Tail(lines))

get_bcd_entries(run) ==
    IF run.kind = "raise" THEN <<>> ELSE BcdNames(run.stdout)

\* the loop of OS_Controller_Windows.py get_default_entry
RECURSIVE BcdDefault(_)
BcdDefault(lines) ==
    IF lines = <<>> THEN None
    ELSE LET match == Split(Strip(lines[1]), ":")
         IN  IF Contains(Lower(lines[1]), T_default) /\ Len(match) > 1
             THEN Strip(match[2])
             ELSE BcdDefault(Tail(lines))

get_default_entry_windows(run) ==
    IF run.kind = "raise" THEN None ELSE BcdDefault(run.stdout)

(***************************************************************************)
(* setup_ui: the inventory (entry_map and the texts of the list items).    *)
(***************************************************************************)
T_open_Boot == <<" ","(","B","o","o","t">>

T_open_GRUB == <<" ","(","G","R","U","B">>

\* the suffix of the item that is the default: two spaces, U+2705, ' (default)'
T_marker == <<" "," ","U+2705"," ","(","d","e","f","a","u","l","t",")">>

\* f"{name} (Boot{bootnum})"
UefiDisplay(e) == e.name \o T_open_Boot \o e.bootnum \o <<")">>

\* f"{name} (GRUB{i})", i the 0-based position
GrubDisplay(name, i) == name \o T_open_GRUB \o Str(i) \o <<")">>

\* f"{name} (Boot{i})" of the Windows variant
BcdDisplay(name, i) == name \o T_open_Boot \o Str(i) \o <<")">>

\* lines 129-133 with enumerate(grub_entries, 1): the GRUB ordinals start at 1
LinuxPairsFromOne(uefi_entries, grub_entries) ==
    [i \in 1..Len(uefi_entries) |->
        [display |-> UefiDisplay(uefi_entries[i]), key |-> uefi_entries[i].bootnum]]
    \o
    [i \in 1..Len(grub_entries) |->
        [display |-> GrubDisplay(grub_entries[i], i), key |-> Str(i)]]

\* the (display, key) pairs in the order setup_ui assigns them
LinuxPairs(uefi_entries, grub_entries) ==
    [i \in 1..Len(uefi_entries) |->
        [display |-> UefiDisplay(uefi_entries[i]), key |-> uefi_entries[i].bootnum]]
    \o
    [i \in 1..Len(grub_entries) |->
        [display |-> GrubDisplay(grub_entries[i], i - 1), key |-> Str(i - 1)]]

WindowsPairs(boot_entries) ==
    [i \in 1..Len(boot_entries) |->
        [display |-> BcdDisplay(boot_entries[i], i - 1), key |-> boot_entries[i]]]

\* the dict after the assignments entry_map[display] = key: the last one wins
EntryMap(pairs) ==
    [d \in {pairs[i].display : i \in 1..Len(pairs)} |->
        pairs[Max({j \in 1..Len(pairs) : pairs[j].display = d})].key]

\* the texts of the QListWidgetItems, in order
Items(pairs, default_entry) ==
    [i \in 1..Len(pairs) |->
        IF default_entry = EntryMap(pairs)[pairs[i].display]
        THEN pairs[i].display \o T_marker
        ELSE pairs[i].display]


(***************************************************************************)
(* Running commands.                                                       *)
(***************************************************************************)
\* a run of an external tool that exited
Exit(rc, stdout, stderr) ==
    [kind |-> "exit", rc |-> rc, stdout |-> stdout, stderr |-> stderr, exc |-> NoException]

\* subprocess.run raised `exc` instead of returning
Raise(exc) ==
    [kind |-> "raise", rc |-> 0, stdout |-> <<>>, stderr |-> <<>>, exc |-> exc]

\* no tool has been run
NoRun == [kind |-> "none", rc |-> 0, stdout |-> <<>>, stderr |-> <<>>, exc |-> NoException]

\* a command_list: its fixed words and the texts computed by the caller
Cmd(words, args) == [words |-> words, args |-> args]

\* run_sudo_command(command_list, password) when the elevated process ends as
\* `run`: [raised, success, err].  raised names the exception that leaves the
\* function (NoException when it returns); err is the text of error_msg, in parts.
run_sudo_command(command_list, password, run) ==
    IF run.kind = "raise"
    THEN IF run.exc = "CalledProcessError"
         THEN [raised |-> NoException, success |-> FALSE,
               err |-> <<"Sudo command failed: ", run.stderr>>]
         ELSE [raised |-> run.exc, success |-> FALSE, err |-> None]
    ELSE IF run.rc # 0
         THEN [raised |-> NoException, success |-> FALSE,
               err |-> <<"Command failed: ", command_list, "\n", Strip(run.stderr)>>]
         ELSE [raised |-> NoException, success |-> TRUE, err |-> None]

T_efivarfs == <<"e","f","i","v","a","r","f","s"," ","o","n"," ","/","s","y","s","/",
                "f","i","r","m","w","a","r","e","/","e","f","i","/",
                "e","f","i","v","a","r","s">>

\* is_uefi_mode(): whether /sys/firmware/efi exists
is_uefi_mode(exists) == exists

\* is_efivarfs_mounted with `return True` in the except branch
MountedUnlessShownOtherwise(run) ==
    IF run.kind = "raise" \/ run.rc # 0 THEN TRUE
    ELSE \E i \in 1..Len(run.stdout) : Contains(run.stdout[i], T_efivarfs)

\* is_efivarfs_mounted(): check_output raises on a non-zero exit as well
is_efivarfs_mounted(run) ==
    IF run.kind = "raise" \/ run.rc # 0 THEN FALSE
    ELSE \E i \in 1..Len(run.stdout) : Contains(run.stdout[i], T_efivarfs)

\* get_selected_index(): `selected` is the row of the selected item, 0 for none
get_selected_index(list_items, sel, map) ==
    IF sel = 0 THEN None
    ELSE LET raw_text == Strip(Remove(list_items[sel], T_marker))
         IN  IF raw_text \in DOMAIN map THEN map[raw_text] ELSE None

T_BootOrder == <<"B","o","o","t","O","r","d","e","r",":">>

\* set_default_os, lines 246-250: current_order from the first 'BootOrder:' line
RECURSIVE CurrentOrder(_)
CurrentOrder(lines) ==
    IF lines = <<>> THEN <<>>
    ELSE IF StartsWith(lines[1], T_BootOrder)
         THEN Split(Strip(Split(lines[1], ":")[2]), ",")
         ELSE CurrentOrder(Tail(lines))

\* [x for x in current_order if x != index]
RECURSIVE Without(_, _)
Without(order, x) ==
    IF order = <<>> THEN <<>>
    ELSE (IF order[1] # x THEN <<order[1]>> ELSE <<>>) \o Without(Tail(order), x)

\* line 251 without the filter: the selected id is put in front and left where it was
NewOrderKeepsAll(idx, current_order) == <<idx>> \o current_order

\* set_default_os, line 251
NewOrder(idx, current_order) == <<idx>> \o Without(current_order, idx)


(***************************************************************************)
(* What the environment can answer.                                        *)
(***************************************************************************)
\* boot numbers of the machines considered
N_0001 == <<"0","0","0","1">>

N_0002 == <<"0","0","0","2">>

N_000A == <<"0","0","0","A">>

N_000B == <<"0","0","0","B">>

\* a menuentry line of grub.cfg
MenuLine(title) == T_menuentry \o title \o <<"'"," ","{">>

\* a line of efibootmgr for one boot variable
BootLine(bootnum, star, name) == T_Boot \o bootnum \o star \o <<" ">> \o name

\* the BootOrder line of efibootmgr
OrderLine(order) == T_BootOrder \o <<" ">> \o Join(order, <<",">>)

GrubCfg == <<MenuLine(<<"U","b">>), <<"}">>, MenuLine(<<"W">>)>>

\* the titles a menuentry can carry (one of them starts with a blank), and the
\* lists of at most MaxTitles of them
MaxTitles == 2

Titles == {<<"U","b">>, <<" ","W">>}

TitleLists == UNION {[1..n -> Titles] : n \in 0..MaxTitles}

\* a grub.cfg with one menuentry block per title, in order, under a header line
RECURSIVE CfgBlocks(_)
CfgBlocks(titles) ==
    IF titles = <<>> THEN <<>>
    ELSE <<MenuLine(titles[1]), <<"}">>>> \o CfgBlocks(Tail(titles))

CfgOf(titles) == <<<<"#"," ","g","r","u","b">>>> \o CfgBlocks(titles)

GrubReads ==
    { [lines |-> GrubCfg, failed |-> FALSE, read |-> Len(GrubCfg)],
      [lines |-> <<>>, failed |-> FALSE, read |-> 0],
      [lines |-> GrubCfg, failed |-> TRUE, read |-> 0],
      [lines |-> GrubCfg, failed |-> TRUE, read |-> 2] }
    \cup {[lines |-> CfgOf(ts), failed |-> FALSE, read |-> Len(CfgOf(ts))] :
             ts \in TitleLists}

UefiListing ==
    << OrderLine(<<N_000A, N_0001>>),
       BootLine(N_0001, <<"*">>, <<"u","b">>),
       BootLine(N_000A, <<>>, <<"W">>) >>

\* a listing that names boot variable 0001 on two lines
UefiTwiceListing ==
    << OrderLine(<<N_0001>>),
       BootLine(N_0001, <<"*">>, <<"u","b">>),
       BootLine(N_0001, <<"*">>, <<"W">>) >>

UefiRuns ==
    { Exit(0, UefiListing, <<>>),
      Exit(0, UefiTwiceListing, <<>>),
      Exit(0, <<>>, <<>>),
      Exit(2, SubSeq(UefiListing, 1, 2), <<"e","r","r">>),
      Raise("FileNotFoundError"),
      Raise("PermissionError") }

\* the line `saved_entry=<value>` of grub-editenv list, and the values it can
\* hold: a GRUB ordinal, what grub-set-default stored for a boot number, and
\* an entry id that holds a '='
SavedLine(value) == T_saved_entry \o value

SavedValues == {<<"0">>, N_0001, <<"a","=","b">>}

EditenvRuns ==
    { Exit(0, <<SavedLine(v)>>, <<>>) : v \in SavedValues }
    \cup
    { Exit(0, <<>>, <<>>),
      Raise("FileNotFoundError") }

BcdListing ==
    << <<"d","e","f","a","u","l","t"," "," ",":"," ","W">>,
       <<"d","e","s","c","r","i","p","t","i","o","n"," ",":"," ","W">>,
       <<"d","e","s","c","r","i","p","t","i","o","n"," ",":"," ","L"," ","x">> >>

\* a line `<key> : <value>` of bcdedit
BcdLine(key, value) == key \o <<" ",":"," ">> \o value

\* the descriptions of a store where two loaders carry the same description
\* and one description holds a colon
BcdTwiceValues == << <<"W">>, <<"W">>, <<"a",":","b">> >>

BcdTwiceListing ==
    <<BcdLine(T_default, <<"a",":","b">>)>>
    \o [i \in 1..Len(BcdTwiceValues) |-> BcdLine(T_description, BcdTwiceValues[i])]

BcdRuns ==
    { Exit(0, BcdListing, <<>>),
      Exit(0, BcdTwiceListing, <<>>),
      Exit(1, SubSeq(BcdListing, 2, 2), <<"e","r","r">>),
      Exit(1, <<>>, <<"e","r","r">>),
      Raise("FileNotFoundError") }

\* the machine the program starts on: one answer per read of a backing store
\* (the Windows variant runs bcdedit twice: for the entries and for the default)
LinuxMachine(g, u, e) ==
    [grub |-> g, uefi |-> u, editenv |-> e, bcd |-> NoRun, bcddefault |-> NoRun]

\* each backing store varied over its answers, the other two answering well
LinuxMachines ==
    LET g0 == [lines |-> GrubCfg, failed |-> FALSE, read |-> Len(GrubCfg)]
        u0 == Exit(0, UefiListing, <<>>)
        e0 == Exit(0, <<T_saved_entry \o <<"0">>>>, <<>>)
    IN  {LinuxMachine(g, u0, e0) : g \in GrubReads}
        \cup {LinuxMachine(g0, u, e0) : u \in UefiRuns}
        \cup {LinuxMachine(g0, u0, e) : e \in EditenvRuns}

WindowsMachines ==
    {[grub |-> [lines |-> <<>>, failed |-> FALSE, read |-> 0], uefi |-> NoRun,
      editenv |-> NoRun, bcd |-> b, bcddefault |-> d] : b \in BcdRuns, d \in BcdRuns}

\* what the user can type into the password dialog
Secrets == {<<>>, <<"p","w">>}

\* how an elevated command can end: exit status 0, a non-zero exit status,
\* or subprocess.run raising because the process could not be started (the
\* elevation binary is missing: FileNotFoundError; fork or exec failed: OSError)
RunOutcomes ==
    { Exit(0, <<>>, <<>>),
      Exit(1, <<>>, <<"d","e","n","i","e","d","\n">>),
      Raise("OSError"),
      Raise("FileNotFoundError") }

\* how `mount` can end when efivarfs is mounted (mounted = TRUE) or not:
\* its listing shows efivarfs on /sys/firmware/efi/efivars only when it is
MountRuns(mounted) ==
    { Exit(0, <<<<"p","r","o","c">>>>
               \o (IF mounted THEN <<T_efivarfs \o <<" ","r","w">>>> ELSE <<>>), <<>>),
      Exit(1, <<>>, <<"e","r","r">>),
      Raise("FileNotFoundError") }

\* the boot orders the firmware can hold: duplicate-free, at most MaxOrder long
MaxOrder == 3

BootNums == {N_0001, N_0002, N_000A, N_000B}

BootOrders ==
    {o \in UNION {[1..n -> BootNums] : n \in 1..MaxOrder} :
        \A i, j \in 1..Len(o) : i # j => o[i] # o[j]}

\* how the unprivileged `efibootmgr` of set_default_os can end
OrderReads ==
    {Exit(0, <<OrderLine(o), BootLine(N_0001, <<"*">>, <<"u","b">>)>>, <<>>) : o \in BootOrders}
    \cup
    { Exit(0, <<OrderLine(<<>>)>>, <<>>),
      Exit(0, <<BootLine(N_0001, <<"*">>, <<"u","b">>)>>, <<>>),
      Exit(2, <<>>, <<"e","r","r">>),
      Raise("FileNotFoundError") }

(***************************************************************************)
(* State.                                                                  *)
(***************************************************************************)
VARIABLES
    platform,       \* "linux": OS_Controller.py, "windows": OS_Controller_Windows.py
    machine,        \* what the backing stores answered when the window was built
    grub_entries,   \* setup_ui locals: what the adapters returned
    uefi_entries,
    boot_entries,
    default_entry,
    entry_map,      \* self.entry_map
    items,          \* texts of the items of self.list_widget
    selected,       \* row of the selected item, 0 when none
    sudo_password,  \* the module global
    pc,             \* where the running handler is; "idle" between handlers
    op,             \* the handler that runs
    chosen,         \* the row get_selected_index found selected (0: none)
    index,          \* handler local
    password,       \* handler local
    result,         \* set_default_os local: the run of line 245
    trace,          \* elevated commands of this invocation: [cmd, input, ret]
    msgs,           \* message boxes of this invocation
    prompts,        \* password dialogs of this invocation
    raised,         \* exception that left the handler, or NoException
    pre,            \* what the environment answered to the checks of this invocation
    nextBootSet,    \* target of the successful 'efibootmgr -n' of this invocation
    validated,      \* secrets whose 'echo verified' has succeeded so far
    validBefore     \* whether a validation had succeeded when this invocation began

vars == <<platform, machine, grub_entries, uefi_entries, boot_entries, default_entry,
          entry_map, items, selected, sudo_password, pc, op, chosen, index, password, result,
          trace, msgs, prompts, raised, pre, nextBootSet, validated, validBefore>>

inventory == <<platform, machine, grub_entries, uefi_entries, boot_entries,
               default_entry, entry_map, items>>

NoPre == [uefi |-> FALSE, efivarfs |-> FALSE, mount |-> NoRun, confirm |-> "No"]

\* OSBootSelector.__init__ of OS_Controller.py on machine m
InitLinux(m) ==
    /\ platform = "linux"
    /\ machine = m
    /\ grub_entries = get_grub_entries(m.grub)
    /\ uefi_entries = get_uefi_entries(m.uefi)
    /\ boot_entries = <<>>
    /\ default_entry = get_default_entry(m.editenv)
    /\ entry_map = EntryMap(LinuxPairs(uefi_entries, grub_entries))
    /\ items = Items(LinuxPairs(uefi_entries, grub_entries), default_entry)

\* OSBootSelector.__init__ of OS_Controller_Windows.py on machine m
InitWindows(m) ==
    /\ platform = "windows"
    /\ machine = m
    /\ grub_entries = <<>>
    /\ uefi_entries = <<>>
    /\ boot_entries = get_bcd_entries(m.bcd)
    /\ default_entry = get_default_entry_windows(m.bcddefault)
    /\ entry_map = EntryMap(WindowsPairs(boot_entries))
    /\ items = Items(WindowsPairs(boot_entries), default_entry)

Init ==
    /\ \/ \E m \in LinuxMachines : InitLinux(m)
       \/ \E m \in WindowsMachines : InitWindows(m)
    /\ selected = 0
    /\ sudo_password = None
    /\ pc = "idle"
    /\ op = NoHandler
    /\ chosen = 0
    /\ index = None
    /\ password = None
    /\ result = NoRun
    /\ trace = <<>>
    /\ msgs = <<>>
    /\ prompts = 0
    /\ raised = NoException
    /\ pre = NoPre
    /\ nextBootSet = None
    /\ validated = {}
    /\ validBefore = FALSE


(***************************************************************************)
(* Handlers.  A handler runs from the click to its return; it blocks at    *)
(* each dialog and at each external command, which are the steps below.    *)
(***************************************************************************)
\* a QMessageBox: kind, title, fixed text and the error text appended to it
Msg(kind, title, text, err) == [kind |-> kind, title |-> title, text |-> text, err |-> err]

\* what run_sudo_command feeds the elevated process on stdin: OS_Controller.py
\* passes input=password + '\n', OS_Controller_Windows.py passes no input
Input(pw) == IF platform = "linux" THEN pw \o <<"\n">> ELSE None

\* the record of one run_sudo_command(command_list, pw) call that returned ret
Call(command_list, pw, ret) ==
    [cmd |-> command_list, password |-> pw, input |-> Input(pw), ret |-> ret]

\* the handler returns
Return ==
    /\ pc' = "idle"
    /\ raised' = NoException

\* an exception leaves the handler: PyQt prints it and goes on, or aborts
Escape(exc) ==
    /\ pc' \in {"idle", "crashed"}
    /\ raised' = exc

\* the locals of the handler that returned are gone, and what was recorded
\* of its invocation is dropped
Forget ==
    /\ op' = NoHandler
    /\ chosen' = 0
    /\ index' = None
    /\ password' = None
    /\ result' = NoRun
    /\ trace' = <<>>
    /\ msgs' = <<>>
    /\ prompts' = 0
    /\ raised' = NoException
    /\ pre' = NoPre
    /\ nextBootSet' = None
    /\ validBefore' = FALSE

\* the user selects a row, or clears the selection
Select ==
    /\ pc = "idle"
    /\ \E r \in 0..Len(items) : r # selected /\ selected' = r
    /\ Forget
    /\ UNCHANGED <<inventory, sudo_password, pc, validated>>

\* the locals and the records of an invocation that begins
Begin(handler) ==
    /\ pc = "idle"
    /\ op' = handler
    /\ chosen' = selected
    /\ index' = get_selected_index(items, selected, entry_map)
    /\ password' = None
    /\ result' = NoRun
    /\ trace' = <<>>
    /\ prompts' = 0
    /\ nextBootSet' = None
    /\ validBefore' = (validated # {})
    /\ UNCHANGED <<inventory, selected, sudo_password, validated>>

NoSelection == Msg("warning", "No selection", "Please select an OS.", None)

\* `if not index: return` after get_selected_index (which warns when no row
\* is selected): nothing else of the handler runs
ReturnNoIndex ==
    /\ ~Truthy(index')
    /\ pre' = NoPre
    /\ msgs' = IF selected = 0 THEN <<NoSelection>> ELSE <<>>
    /\ Return

NotUefi == Msg("critical", "Error", "System is not in UEFI mode.", None)

NoEfivars ==
    Msg("critical", "Error",
        "EFI variables are not accessible. Ensure efivarfs is mounted.", None)

\* OS_Controller.py reboot_selected, lines 190-208
ClickReboot ==
    /\ platform = "linux"
    /\ Begin("reboot_selected")
    /\ \/ ReturnNoIndex
       \/ /\ Truthy(index')
          /\ \E uefi \in BOOLEAN, efivarfs \in BOOLEAN, confirm \in {"Yes", "No"} :
               \E mnt \in MountRuns(efivarfs) :
                /\ pre' = [uefi |-> uefi, efivarfs |-> efivarfs, mount |-> mnt,
                           confirm |-> confirm]
                /\ IF ~is_uefi_mode(uefi)
                   THEN /\ msgs' = <<NotUefi>>
                        /\ Return
                   ELSE IF ~is_efivarfs_mounted(mnt)
                   THEN /\ msgs' = <<NoEfivars>>
                        /\ Return
                   ELSE IF confirm # "Yes"
                   THEN /\ msgs' = <<>>
                        /\ Return
                   ELSE /\ msgs' = <<>>
                        /\ pc' = "prompt"
                        /\ raised' = NoException

\* OS_Controller_Windows.py reboot_selected, lines 164-174
ClickRebootWindows ==
    /\ platform = "windows"
    /\ Begin("reboot_selected")
    /\ \/ ReturnNoIndex
       \/ /\ Truthy(index')
          /\ \E confirm \in {"Yes", "No"} :
                /\ pre' = [uefi |-> FALSE, efivarfs |-> FALSE, mount |-> NoRun,
                           confirm |-> confirm]
                /\ msgs' = <<>>
                /\ IF confirm # "Yes"
                   THEN Return
                   ELSE /\ pc' = "prompt"
                        /\ raised' = NoException

\* set_default_os of both files, up to the call of prompt_for_password
ClickSetDefault ==
    /\ Begin("set_default_os")
    /\ \/ ReturnNoIndex
       \/ /\ Truthy(index')
          /\ pre' = NoPre
          /\ msgs' = <<>>
          /\ pc' = "prompt"
          /\ raised' = NoException

\* the handler without its `if not password: return`
AfterPromptUnchecked(pw) ==
    /\ password' = pw
    /\ raised' = NoException
    /\ pc' = IF op = "set_default_os" THEN "setdefault"
             ELSE IF platform = "linux" THEN "setnext"
             ELSE "shutdown"

\* where the handler goes on after prompt_for_password returned pw:
\* `if not password: return`, then the first elevated command
AfterPrompt(pw) ==
    /\ password' = pw
    /\ raised' = NoException
    /\ pc' = IF ~Truthy(pw) THEN "idle"
             ELSE IF op = "set_default_os" THEN "setdefault"
             ELSE IF platform = "linux" THEN "setnext"
             ELSE "shutdown"

\* prompt_for_password: `if sudo_password: return sudo_password`
PromptCached ==
    /\ pc = "prompt"
    /\ Truthy(sudo_password)
    /\ AfterPrompt(sudo_password)
    /\ UNCHANGED <<inventory, selected, sudo_password, op, chosen, index, result, trace, msgs,
                   prompts, pre, nextBootSet, validated, validBefore>>

\* prompt_for_password: the dialog is cancelled, None is returned
PromptCancel ==
    /\ pc = "prompt"
    /\ ~Truthy(sudo_password)
    /\ prompts' = prompts + 1
    /\ AfterPrompt(None)
    /\ UNCHANGED <<inventory, selected, sudo_password, op, chosen, index, result, trace, msgs,
                   pre, nextBootSet, validated, validBefore>>

AuthFailed == Msg("critical", "Authentication Failed", "Incorrect password. Try again.", None)

\* lines 181-182 with the assignment moved out of `if success`
CacheAlways(ret, pw) == pw

\* sudo_password after the validation of pw returned ret: lines 181-182
\* (Windows: lines 155-156) assign it only `if success`
CacheAfter(ret, pw) == IF ret.success THEN pw ELSE sudo_password

\* prompt_for_password: the dialog is accepted with pw and 'echo verified' is run
PromptValidate ==
    /\ pc = "prompt"
    /\ ~Truthy(sudo_password)
    /\ \E pw \in Secrets, run \in RunOutcomes :
        LET cmd == Cmd(<<"echo", "verified">>, <<>>)
            ret == run_sudo_command(cmd, pw, run)
        IN  /\ prompts' = prompts + 1
            /\ trace' = Append(trace, Call(cmd, pw, ret))
            /\ IF ret.raised # NoException
               THEN /\ Escape(ret.raised)
                    /\ UNCHANGED <<sudo_password, password, msgs, validated>>
               ELSE IF ret.success
               THEN /\ sudo_password' = CacheAfter(ret, pw)
                    /\ validated' = validated \cup {pw}
                    /\ AfterPrompt(pw)
                    /\ UNCHANGED msgs
               ELSE /\ prompts < MaxPrompts
                    /\ sudo_password' = CacheAfter(ret, pw)
                    /\ msgs' = Append(msgs, AuthFailed)
                    /\ pc' = "prompt"
                    /\ raised' = NoException
                    /\ UNCHANGED <<password, validated>>
    /\ UNCHANGED <<inventory, selected, op, chosen, index, result, pre, nextBootSet, validBefore>>

\* lines 214-217 with grub-reboot in the branch commented '# GRUB entry'
SetNextCmdGrubReboot(idx) ==
    IF IsDigit(idx)
    THEN Cmd(<<"grub-reboot">>, <<idx>>)
    ELSE Cmd(<<"efibootmgr", "-n">>, <<idx>>)

\* the command of lines 214-217 of OS_Controller.py
SetNextCmd(idx) ==
    IF IsDigit(idx)
    THEN Cmd(<<"efibootmgr", "-n">>, <<idx>>)
    ELSE Cmd(<<"efibootmgr", "-n">>, <<idx>>)

\* OS_Controller.py reboot_selected, lines 214-219 and 225-226
SetNextBoot ==
    /\ pc = "setnext"
    /\ \E run \in RunOutcomes :
        LET ret == run_sudo_command(SetNextCmd(index), password, run)
        IN  /\ trace' = Append(trace, Call(SetNextCmd(index), password, ret))
            /\ IF ret.raised # NoException
               THEN /\ Escape(ret.raised)
                    /\ UNCHANGED <<msgs, nextBootSet>>
               ELSE IF ret.success
               THEN /\ pc' = "reboot"
                    /\ raised' = NoException
                    /\ nextBootSet' = index
                    /\ UNCHANGED msgs
               ELSE /\ msgs' = Append(msgs, Msg("critical", "BootNext Failed",
                                                "Failed to set one-time boot.", ret.err))
                    /\ Return
                    /\ UNCHANGED nextBootSet
    /\ UNCHANGED <<inventory, selected, sudo_password, op, chosen, index, password, result,
                   prompts, pre, validated, validBefore>>

\* OS_Controller.py reboot_selected, lines 220-224
Reboot ==
    /\ pc = "reboot"
    /\ \E run \in RunOutcomes :
        LET cmd == Cmd(<<"reboot">>, <<>>)
            ret == run_sudo_command(cmd, password, run)
        IN  /\ trace' = Append(trace, Call(cmd, password, ret))
            /\ IF ret.raised # NoException
               THEN /\ Escape(ret.raised)
                    /\ UNCHANGED msgs
               ELSE IF ret.success
               THEN /\ msgs' = Append(msgs, Msg("information", "Rebooting",
                                                "System is rebooting now...", None))
                    /\ pc' = "rebooting"
                    /\ raised' = NoException
               ELSE /\ msgs' = Append(msgs, Msg("critical", "Reboot Failed",
                                                "Failed to reboot.", ret.err))
                    /\ Return
    /\ UNCHANGED <<inventory, selected, sudo_password, op, chosen, index, password, result,
                   prompts, pre, nextBootSet, validated, validBefore>>

\* OS_Controller_Windows.py reboot_selected, lines 180-185
ShutdownWindows ==
    /\ pc = "shutdown"
    /\ \E run \in RunOutcomes :
        LET cmd == Cmd(<<"shutdown", "/r", "/t", "0">>, <<>>)
            ret == run_sudo_command(cmd, password, run)
        IN  /\ trace' = Append(trace, Call(cmd, password, ret))
            /\ IF ret.raised # NoException
               THEN /\ Escape(ret.raised)
                    /\ UNCHANGED msgs
               ELSE IF ret.success
               THEN /\ msgs' = Append(msgs, Msg("information", "Rebooting",
                                                "System is rebooting now...", None))
                    /\ pc' = "rebooting"
                    /\ raised' = NoException
               ELSE /\ msgs' = Append(msgs, Msg("critical", "Reboot Failed",
                                                "Failed to reboot.", ret.err))
                    /\ Return
    /\ UNCHANGED <<inventory, selected, sudo_password, op, chosen, index, password, result,
                   prompts, pre, nextBootSet, validated, validBefore>>

\* the test of line 237 of OS_Controller.py: the branch commented '# GRUB'
IsGrubBranch(idx) == IsDigit(idx)

\* the end of a set_default_os branch: one elevated command, then its message
RunAndReport(cmd, run, okText, failText) ==
    LET ret == run_sudo_command(cmd, password, run)
    IN  /\ trace' = Append(trace, Call(cmd, password, ret))
        /\ IF ret.raised # NoException
           THEN /\ Escape(ret.raised)
                /\ UNCHANGED msgs
           ELSE /\ msgs' = Append(msgs,
                        IF ret.success
                        THEN Msg("information", "Success", okText, None)
                        ELSE Msg("critical", "Error", failText, ret.err))
                /\ Return

\* OS_Controller.py set_default_os, lines 237-242
SetDefaultGrub ==
    /\ pc = "setdefault"
    /\ platform = "linux"
    /\ IsGrubBranch(index)
    /\ \E run \in RunOutcomes :
        RunAndReport(Cmd(<<"grub-set-default">>, <<index>>), run,
                     "Set GRUB entry as default.", "Failed to set GRUB default.")
    /\ UNCHANGED <<inventory, selected, sudo_password, op, chosen, index, password, result,
                   prompts, pre, nextBootSet, validated, validBefore>>

\* OS_Controller.py set_default_os, lines 243-257
SetDefaultUefi ==
    /\ pc = "setdefault"
    /\ platform = "linux"
    /\ ~IsGrubBranch(index)
    /\ \E rd \in OrderReads :
        /\ result' = rd
        /\ IF rd.kind = "raise"
           THEN /\ Escape(rd.exc)
                /\ UNCHANGED <<trace, msgs>>
           ELSE \E run \in RunOutcomes :
                    RunAndReport(Cmd(<<"efibootmgr", "--bootorder">>,
                                     NewOrder(index, CurrentOrder(rd.stdout))), run,
                                 "Set as default UEFI boot option.",
                                 "Failed to set UEFI boot order.")
    /\ UNCHANGED <<inventory, selected, sudo_password, op, chosen, index, password,
                   prompts, pre, nextBootSet, validated, validBefore>>

\* OS_Controller_Windows.py set_default_os, lines 196-200
SetDefaultBcd ==
    /\ pc = "setdefault"
    /\ platform = "windows"
    /\ \E run \in RunOutcomes :
        RunAndReport(Cmd(<<"bcdedit", "/default">>, <<index>>), run,
                     "Set as default boot entry.", "Failed to set default boot entry.")
    /\ UNCHANGED <<inventory, selected, sudo_password, op, chosen, index, password, result,
                   prompts, pre, nextBootSet, validated, validBefore>>

Next ==
    \/ Select
    \/ ClickReboot
    \/ ClickRebootWindows
    \/ ClickSetDefault
    \/ PromptCached
    \/ PromptCancel
    \/ PromptValidate
    \/ SetNextBoot
    \/ Reboot
    \/ ShutdownWindows
    \/ SetDefaultGrub
    \/ SetDefaultUefi
    \/ SetDefaultBcd

Spec == Init /\ [][Next]_vars


(***************************************************************************)
(* Properties.                                                             *)
(***************************************************************************)
Range(f) == {f[i] : i \in DOMAIN f}

Calls == Range(trace)

\* the elevated process of the call was started (and has exited)
Issued(c) == c.ret.raised = NoException

IsValidation(c) == c.cmd.words = <<"echo", "verified">>

IsReboot(c) == c.cmd.words[1] \in {"reboot", "shutdown"}

IsSetNext(c) == c.cmd.words = <<"efibootmgr", "-n">> /\ c.cmd.args = <<index>>

IsOrderWrite(c) == c.cmd.words = <<"efibootmgr", "--bootorder">>

\* C1: in both platform variants of reboot_selected, a reboot command
\* ('reboot' / 'shutdown /r') is issued only after a command of the same
\* invocation that sets the one-time boot target to the selected entry has
\* returned success.
C1_RebootOnlyAfterSetNext ==
    \A i \in 1..Len(trace) :
        (IsReboot(trace[i]) /\ Issued(trace[i])) =>
            \E j \in 1..(i - 1) : IsSetNext(trace[j]) /\ trace[j].ret.success

\* the backing store of the entry in the row the handler found selected:
\* setup_ui lists the UEFI entries first, then the GRUB entries
ChosenStore == IF chosen <= Len(uefi_entries) THEN "UEFI" ELSE "GRUB"

\* C2: set_default_os dispatches by the backing store of the selected entry:
\* for a UEFI entry (any boot number, also one made of decimal digits only)
\* the only mutating command is 'efibootmgr --bootorder', for a GRUB entry
\* the only mutating command is 'grub-set-default <index>'.
C2_DispatchByStore ==
    (platform = "linux" /\ op = "set_default_os" /\ chosen > 0) =>
        \A c \in Calls :
            (Issued(c) /\ ~IsValidation(c)) =>
                IF ChosenStore = "UEFI"
                THEN IsOrderWrite(c)
                ELSE c.cmd = Cmd(<<"grub-set-default">>,
                                 <<Str(chosen - Len(uefi_entries) - 1)>>)

\* the read of the current boot order failed: the tool could not be
\* spawned, exited non-zero, or printed no BootOrder line
ReadFailed(run) ==
    \/ run.kind = "raise"
    \/ /\ run.kind = "exit"
       /\ \/ run.rc # 0
          \/ \A i \in 1..Len(run.stdout) : ~StartsWith(run.stdout[i], T_BootOrder)

\* C3: in set_default_os for a UEFI entry, when reading the current boot
\* order fails, no 'efibootmgr --bootorder' write is issued.
C3_NoWriteAfterFailedRead ==
    (op = "set_default_os" /\ ReadFailed(result)) =>
        \A c \in Calls : ~(IsOrderWrite(c) /\ Issued(c))

\* w is o with x moved to the front: x first, same length, same ids, no
\* duplicates, and the other ids in the relative order they have in o
MovedToFront(w, o, x) ==
    /\ Len(w) = Len(o)
    /\ w[1] = x
    /\ Range(w) = Range(o)
    /\ \A i, j \in 1..Len(w) : i # j => w[i] # w[j]
    /\ \A i, j \in 1..Len(o) :
        (i < j /\ o[i] # x /\ o[j] # x) =>
            \E a, b \in 1..Len(w) : a < b /\ w[a] = o[i] /\ w[b] = o[j]

\* the boot order the firmware reported to set_default_os is o
ReportedOrder(o) == result.stdout # <<>> /\ result.stdout[1] = OrderLine(o)

\* C4: for every duplicate-free current boot order and every selected id X
\* in it, the order set_default_os writes has X first, followed by all other
\* ids of the current order in their original relative order.
C4_MoveToFront ==
    \A c \in Calls :
        IsOrderWrite(c) =>
            \A o \in BootOrders :
                (ReportedOrder(o) /\ index \in Range(o)) =>
                    MovedToFront(c.cmd.args, o, index)

\* C4 witness: [0001,0002,000A] with 000A selected is written as [000A,0001,0002]
C4_Witness ==
    \E c \in Calls :
        /\ IsOrderWrite(c)
        /\ ReportedOrder(<<N_0001, N_0002, N_000A>>)
        /\ index = N_000A
        /\ c.cmd.args = <<N_000A, N_0001, N_0002>>

\* C5: the cached credential is unset or a secret whose validation command
\* returned success, and every elevated command other than the validation
\* is given that cached, validated secret.
C5_CacheOnlyValidated ==
    /\ sudo_password = None \/ sudo_password \in validated
    /\ \A c \in Calls :
        ~IsValidation(c) => (c.password \in validated /\ c.password = sudo_password)
    /\ pc \in {"setnext", "reboot", "shutdown", "setdefault"} => password \in validated

\* C5 witness: the empty secret was rejected, "pw" was then accepted and
\* cached, and an elevated command has run with it
C5_Witness ==
    /\ Len(trace) >= 3
    /\ IsValidation(trace[1]) /\ ~trace[1].ret.success /\ trace[1].password = <<>>
    /\ IsValidation(trace[2]) /\ trace[2].ret.success /\ trace[2].password = <<"p","w">>
    /\ ~IsValidation(trace[3])
    /\ sudo_password = <<"p","w">>

\* C6: once a credential (the empty secret included) has passed validation,
\* every later invocation of reboot_selected or set_default_os reuses it:
\* no password dialog, no validation run, and the handler goes on to its
\* elevated command.
C6_ReuseAfterValidation ==
    validBefore =>
        /\ prompts = 0
        /\ \A c \in Calls : ~IsValidation(c)
        /\ (op = "set_default_os" /\ Truthy(index) /\ pc = "idle"
                /\ raised = NoException) => trace # <<>>

\* C7: in reboot_selected of OS_Controller.py, when the firmware is not in
\* UEFI mode or efivarfs is not mounted, the handler shows the message of
\* that precondition (the two messages differ) and returns without a
\* password dialog and without any elevated command.
C7_PreconditionsFirst ==
    /\ NotUefi # NoEfivars
    /\ (platform = "linux" /\ op = "reboot_selected" /\ Truthy(index)
            /\ (~pre.uefi \/ ~pre.efivarfs)) =>
        /\ pc = "idle"
        /\ prompts = 0
        /\ trace = <<>>
        /\ msgs = <<IF ~pre.uefi THEN NotUefi ELSE NoEfivars>>

\* C7 witness: UEFI firmware without efivarfs, and a credential is cached
C7_Witness ==
    /\ platform = "linux" /\ op = "reboot_selected" /\ Truthy(index)
    /\ pre.uefi /\ ~pre.efivarfs
    /\ Truthy(sudo_password)
    /\ msgs = <<NoEfivars>>

\* C8: run_sudo_command never lets an exception escape: every call returns
\* (success, error), with a non-empty error when it did not succeed.
C8_AlwaysReturns ==
    \A c \in Calls :
        /\ c.ret.raised = NoException
        /\ ~c.ret.success => (c.ret.err # None /\ c.ret.err # <<>>)

\* C9: in reboot_selected, a failed set-next-boot and a failed reboot after
\* a successful set-next-boot are each reported, under different titles and
\* with the failing command's error text; after the former no reboot
\* command is issued, after the latter the next-boot target is still set.
C9_DistinctFailureReports ==
    (platform = "linux" /\ op = "reboot_selected" /\ trace # <<>>) =>
        LET last == trace[Len(trace)]
        IN  /\ (IsSetNext(last) /\ ~last.ret.success) =>
                /\ msgs # <<>>
                /\ msgs[Len(msgs)] = Msg("critical", "BootNext Failed",
                                         "Failed to set one-time boot.", last.ret.err)
                /\ last.ret.err # None
                /\ nextBootSet = None
            /\ (IsReboot(last) /\ ~last.ret.success) =>
                /\ msgs # <<>>
                /\ msgs[Len(msgs)] = Msg("critical", "Reboot Failed",
                                         "Failed to reboot.", last.ret.err)
                /\ last.ret.err # None
                /\ nextBootSet = index

\* the tool of a backing store failed: it could not be run or exited non-zero
RunFailed(run) == run.kind = "raise" \/ (run.kind = "exit" /\ run.rc # 0)

\* C10: every entry source adapter returns an empty sequence on any failure
\* of its backing store (unreadable file, read error part-way, tool not
\* found, non-zero exit even with matching lines on stdout).
C10_EmptyOnFailure ==
    /\ machine.grub.failed => grub_entries = <<>>
    /\ RunFailed(machine.uefi) => uefi_entries = <<>>
    /\ RunFailed(machine.bcd) => boot_entries = <<>>

(***************************************************************************)
(* The inventory, row by row.                                              *)
(***************************************************************************)
\* the backing store the entry of row r was read from
RowStore(r) ==
    IF platform = "windows" THEN "BCD"
    ELSE IF r <= Len(uefi_entries) THEN "UEFI" ELSE "GRUB"

\* the id of the entry of row r within its backing store: the boot number,
\* the 0-based position in grub.cfg, the description of the BCD entry
RowId(r) ==
    IF platform = "windows" THEN boot_entries[r]
    ELSE IF r <= Len(uefi_entries) THEN uefi_entries[r].bootnum
    ELSE Str(r - Len(uefi_entries) - 1)

Rows == 1..Len(items)

\* row r carries the default marker
Marked(r) ==
    /\ Len(items[r]) >= Len(T_marker)
    /\ SubSeq(items[r], Len(items[r]) - Len(T_marker) + 1, Len(items[r])) = T_marker

\* C11: the inventory built in setup_ui never contains two entries with the
\* same (backing_store, id), also when the efibootmgr output has two lines
\* for the same boot number or the BCD output has two identical descriptions.
C11_NoDuplicateIds ==
    \A r1, r2 \in Rows :
        r1 # r2 => <<RowStore(r1), RowId(r1)>> # <<RowStore(r2), RowId(r2)>>

\* the value of the saved_entry line grub-editenv printed, if it printed one
SavedValueIs(v) ==
    machine.editenv.kind = "exit" /\ machine.editenv.stdout = <<SavedLine(v)>>

\* C12: an entry is marked default only if its id equals the current default
\* of its own backing store: a GRUB entry is marked exactly when its index
\* string equals the saved_entry value, and a UEFI entry is never marked,
\* whatever saved_entry holds.
C12_DefaultOfOwnStore ==
    platform = "linux" =>
        \A r \in Rows :
            /\ RowStore(r) = "UEFI" => ~Marked(r)
            /\ RowStore(r) = "GRUB" =>
                (Marked(r) <=> \E v \in SavedValues : SavedValueIs(v) /\ RowId(r) = v)

\* the step in which the user answers No to the reboot confirmation: the
\* handler got an index and, on Linux, both preconditions held
DeclineStep ==
    /\ pc = "idle"
    /\ op' = "reboot_selected"
    /\ Truthy(index')
    /\ pre'.confirm = "No"
    /\ platform = "windows" \/ (pre'.uefi /\ is_efivarfs_mounted(pre'.mount))

\* the step in which the user cancels the password dialog: a dialog was
\* shown and no validation was run for it
CancelStep ==
    /\ pc = "prompt"
    /\ prompts' = prompts + 1
    /\ trace' = trace

\* C13: cancelling abandons the operation with no effect.  Declining the
\* reboot confirmation shows no password dialog and runs no elevated command;
\* cancelling the password dialog in reboot_selected or set_default_os ends
\* the handler with no mutating command run, the cached password unchanged
\* and no message for the cancellation (the only messages of the invocation
\* are those of the secrets rejected before).
C13_CancelHasNoEffect ==
    [][ /\ DeclineStep =>
            /\ pc' = "idle" /\ raised' = NoException
            /\ prompts' = 0
            /\ trace' = <<>>
            /\ msgs' = <<>>
            /\ sudo_password' = sudo_password
        /\ CancelStep =>
            /\ pc' = "idle" /\ raised' = NoException
            /\ \A c \in Range(trace') : IsValidation(c)
            /\ sudo_password' = sudo_password
            /\ msgs' = msgs
            /\ \A m \in Range(msgs') : m = AuthFailed
      ]_vars

\* reboot_selected returned because the dialog was cancelled after one
\* secret had been rejected
C13_Witness ==
    /\ op = "reboot_selected"
    /\ pre.confirm = "Yes"
    /\ pc = "idle"
    /\ prompts = Len(trace) + 1
    /\ msgs = <<AuthFailed>>
    /\ password = None

\* the elevated command the step appended to the trace
LastCall == trace'[Len(trace')]

\* C14: in prompt_for_password every rejected secret leads to a new prompt
\* with the cache still unset, and the loop ends only when a secret passes
\* validation or the user cancels (or, before any dialog, the cache holds a
\* password).
C14_LoopEndsOnlyByPassOrCancel ==
    [][ pc = "prompt" =>
            /\ (trace' # trace /\ ~LastCall.ret.success) =>
                  /\ pc' = "prompt"
                  /\ ~Truthy(sudo_password')
            /\ pc' # "prompt" =>
                  \/ Truthy(sudo_password) /\ password' = sudo_password
                  \/ trace' # trace /\ LastCall.ret.success
                  \/ CancelStep
      ]_vars

\* C15: for a grub.cfg with N menuentry lines, get_grub_entries returns
\* exactly the N titles in file order, the inventory gives them the ids
\* "0".."N-1" in that order, and the UEFI entries come before all of them.
C15_GrubOrdinals ==
    \A ts \in TitleLists :
        (platform = "linux" /\ ~machine.grub.failed /\ machine.grub.lines = CfgOf(ts)) =>
            /\ grub_entries = ts
            /\ Len(items) = Len(uefi_entries) + Len(ts)
            /\ \A k \in 1..Len(uefi_entries) :
                StartsWith(items[k], uefi_entries[k].name \o <<" ","(","B","o","o","t">>
                                       \o uefi_entries[k].bootnum \o <<")">>)
            /\ \A k \in 1..Len(ts) :
                LET display == ts[k] \o <<" ","(","G","R","U","B">> \o Str(k - 1) \o <<")">>
                IN  /\ StartsWith(items[Len(uefi_entries) + k], display)
                    /\ display \in DOMAIN entry_map
                    /\ entry_map[display] = Str(k - 1)

\* two menuentry lines with the same title, after the two UEFI entries
C15_Witness ==
    /\ platform = "linux"
    /\ machine.grub.lines = CfgOf(<<<<"U","b">>, <<"U","b">>>>)
    /\ grub_entries = <<<<"U","b">>, <<"U","b">>>>
    /\ Len(uefi_entries) = 2
    /\ Len(items) = 4

\* C16: the default resolvers return the complete value text: for a line
\* 'saved_entry=<value>' get_default_entry returns <value> verbatim, further
\* '=' included; for BCD output get_default_entry and get_bcd_entries return
\* all text after the first colon, trimmed, further colons included.
C16_CompleteValue ==
    /\ platform = "linux" =>
        \A v \in SavedValues : SavedValueIs(v) => default_entry = v
    /\ (platform = "windows" /\ machine.bcd = Exit(0, BcdTwiceListing, <<>>)) =>
        boot_entries = BcdTwiceValues
    /\ (platform = "windows" /\ machine.bcddefault = Exit(0, BcdTwiceListing, <<>>)) =>
        default_entry = <<"a",":","b">>

\* 'efibootmgr -n <id>' for the entry of the selected row
SetNextOfChosen == Cmd(<<"efibootmgr", "-n">>, <<RowId(chosen)>>)

\* C17: in reboot_selected of OS_Controller.py the set-next-boot command is
\* 'efibootmgr -n <id>' with the id of the selected entry, for GRUB and for
\* UEFI entries alike: a GRUB ordinal is passed unchanged, and a GRUB entry
\* is never rejected (with a password in hand the handler does not return
\* before it has run the command).
C17_SetNextForBothStores ==
    (platform = "linux" /\ op = "reboot_selected" /\ chosen > 0) =>
        /\ \A c \in Calls :
            (~IsValidation(c) /\ c.cmd.words # <<"reboot">>) => c.cmd = SetNextOfChosen
        /\ pc \in {"reboot", "rebooting"} =>
            \E c \in Calls : c.cmd = SetNextOfChosen /\ c.ret.success
        /\ (pc = "idle" /\ raised = NoException /\ Truthy(password)) =>
            \E c \in Calls : c.cmd = SetNextOfChosen

\* the next boot was set to GRUB ordinal 0 by 'efibootmgr -n 0'
C17_Witness ==
    /\ platform = "linux"
    /\ op = "reboot_selected"
    /\ chosen > Len(uefi_entries)
    /\ pc = "reboot"
    /\ \E c \in Calls : c.cmd = Cmd(<<"efibootmgr", "-n">>, <<<<"0">>>>) /\ c.ret.success

\* C18: selection round trip: for every inventory and every row of the
\* list, with or without the default marker, get_selected_index returns the
\* id of exactly that row's entry, never None and never another entry's id.
C18_SelectionRoundTrip ==
    (op # NoHandler /\ chosen > 0) => index = RowId(chosen)

=============================================================================
